---- MODULE Spec2Model ----
(***************************************************************************)
(* Model of src/src/main.rs: a HashMap<String, Vec<String>> ("Table") that *)
(* main builds from three literal entries, reads through an indexing       *)
(* assertion and sorts in place with sort_works; show prints a table       *)
(* through a shared reference.                                             *)
(*                                                                         *)
(* A String is modelled as the sequence of its UTF-8 bytes, so that the    *)
(* comparison used by Vec::sort and the text written by println! are       *)
(* computed byte by byte.  Standard output is a byte stream.               *)
(*                                                                         *)
(* Two kinds of run are modelled: caller = "main" is the program's main,   *)
(* step by step; caller = "any" is an arbitrary caller that owns some      *)
(* bounded table and calls show and sort_works on it in any order.         *)
(***************************************************************************)
EXTENDS Integers, Sequences, FiniteSets

VARIABLES
    caller,   \* "main" or "any"
    pc,       \* position of the running code
    table,    \* the Table: a function from artist to sequence of works
    live,     \* TRUE while the caller's variable `table` holds the Table
    todo,     \* entries the running `for ... in table` has not yet yielded
    cur,      \* show: the artist of the running inner loop
    idx,      \* show: index of the next work of the inner loop
    out,      \* bytes written to standard output (since the last call of show began)
    readers,  \* number of shared borrows of the table in use
    writer,   \* TRUE while a mutable borrow of the table is in use
    pre,      \* history: the table when the running call (or run of shows) began
    lastOp,   \* history: the function that returned last ("none", "show", "sort")
    again     \* history: TRUE when the call before the last was of lastOp too

vars == <<caller, pc, table, live, todo, cur, idx, out, readers, writer, pre, lastOp, again>>

----------------------------------------------------------------------------
(* Bounds of the arbitrary caller *)

MaxArtists == 2   \* most entries of a table of the arbitrary caller
MaxWorks == 3     \* most works, of all artists together, of such a table

----------------------------------------------------------------------------
(* String literals of the program, as bytes *)

LF == 10          \* the line terminator println! appends
Space == 32       \* " " of the format string " {}"
Colon == 58       \* ":" of the format string "works by {}:"

\* "Hello, world!"
HelloWorld == <<72, 101, 108, 108, 111, 44, 32, 119, 111, 114, 108, 100, 33>>
\* "works by "
WorksBy == <<119, 111, 114, 107, 115, 32, 98, 121, 32>>
\* "Gesualdo"
Gesualdo == <<71, 101, 115, 117, 97, 108, 100, 111>>
\* "Caravaggio"
Caravaggio == <<67, 97, 114, 97, 118, 97, 103, 103, 105, 111>>
\* "Cellini"
Cellini == <<67, 101, 108, 108, 105, 110, 105>>
\* "many madrigals"
ManyMadrigals == <<109, 97, 110, 121, 32, 109, 97, 100, 114, 105, 103, 97, 108, 115>>
\* "Tenebrae Responsoria"
TenebraeResponsoria == <<84, 101, 110, 101, 98, 114, 97, 101, 32, 82, 101, 115, 112, 111, 110, 115, 111, 114, 105, 97>>
\* "The Musicians"
TheMusicians == <<84, 104, 101, 32, 77, 117, 115, 105, 99, 105, 97, 110, 115>>
\* "The Calling of St. Matthew"
TheCallingOfStMatthew == <<84, 104, 101, 32, 67, 97, 108, 108, 105, 110, 103, 32, 111, 102, 32, 83, 116, 46, 32, 77, 97, 116, 116, 104, 101, 119>>
\* "Perseus with the head of Medusa"
PerseusWithTheHeadOfMedusa == <<80, 101, 114, 115, 101, 117, 115, 32, 119, 105, 116, 104, 32, 116, 104, 101, 32, 104, 101, 97, 100, 32, 111, 102, 32, 77, 101, 100, 117, 115, 97>>
\* "a salt cellar"
ASaltCellar == <<97, 32, 115, 97, 108, 116, 32, 99, 101, 108, 108, 97, 114>>

\* vec!["Tenebrae Responsoria", "many madrigals"]: the two works swapped
GesualdoWorksSwapped == <<TenebraeResponsoria, ManyMadrigals>>

\* vec!["many madrigals", "Tenebrae Responsoria"]
GesualdoWorks == <<ManyMadrigals, TenebraeResponsoria>>

\* vec!["The Musicians", "The Calling of St. Matthew"]
CaravaggioWorks == <<TheMusicians, TheCallingOfStMatthew>>

\* vec!["Perseus with the head of Medusa", "a salt cellar"]
CelliniWorks == <<PerseusWithTheHeadOfMedusa, ASaltCellar>>

----------------------------------------------------------------------------
(* Inputs of the arbitrary caller *)

\* Artist names: the program's three
Artists == {Gesualdo, Caravaggio, Cellini}

\* Work titles: "P", "a" (upper case sorts before lower case), "a\n" (has "a"
\* as a proper prefix, and holds a line feed)
Titles == { <<80>>, <<97>>, <<97, LF>> }

SeqsUpTo(S, n) == UNION { [1..k -> S] : k \in 0..n }

\* the works among w, in their order, that own gives to artist a
WorksOf(w, own, a) ==
    LET F[i \in 0..Len(w)] ==
            IF i = 0 THEN <<>>
            ELSE IF own[i] = a THEN Append(F[i - 1], w[i]) ELSE F[i - 1]
    IN  F[Len(w)]

\* every table of at most MaxArtists artists and MaxWorks works
AnyTables ==
    UNION { UNION { { [a \in A |-> WorksOf(w, own, a)] : own \in [1..Len(w) -> A] } :
                    w \in SeqsUpTo(Titles, MaxWorks) } :
            A \in { B \in SUBSET Artists : Cardinality(B) <= MaxArtists } }

----------------------------------------------------------------------------
(* Table::new and HashMap::insert *)

EmptyTable == [a \in {} |-> <<>>]

\* a faulty insert that replaces the whole map by the new entry
TableInsertOnly(t, k, v) == [a \in {k} |-> v]

\* table.insert(k, v): the entry of k is created or replaced
TableInsert(t, k, v) == [a \in DOMAIN t \cup {k} |-> IF a = k THEN v ELSE t[a]]

----------------------------------------------------------------------------
(* String comparison and Vec::sort *)

Fold(c) == IF 65 <= c /\ c <= 90 THEN c + 32 ELSE c

\* a comparison that ignores the case of ASCII letters
RECURSIVE StrLessIgnoreCase(_, _)
StrLessIgnoreCase(a, b) ==
    IF b = <<>> THEN FALSE
    ELSE IF a = <<>> THEN TRUE
    ELSE IF Fold(Head(a)) # Fold(Head(b)) THEN Fold(Head(a)) < Fold(Head(b))
    ELSE StrLessIgnoreCase(Tail(a), Tail(b))

\* a < b for String: the bytes are compared in turn, the first difference
\* decides, and of two strings that agree on the shorter the shorter is less
RECURSIVE StrLess(_, _)
StrLess(a, b) ==
    IF b = <<>> THEN FALSE
    ELSE IF a = <<>> THEN TRUE
    ELSE IF Head(a) # Head(b) THEN Head(a) < Head(b)
    ELSE StrLess(Tail(a), Tail(b))

\* an insertion whose comparison always answers "less"
InsertFirst(x, s) == <<x>> \o s

\* x put into the sorted s, after the elements not greater than x
RECURSIVE InsertSorted(_, _)
InsertSorted(x, s) ==
    IF s = <<>> THEN <<x>>
    ELSE IF StrLess(x, Head(s)) THEN <<x>> \o s
    ELSE <<Head(s)>> \o InsertSorted(x, Tail(s))

\* a sort that also drops repeated titles
RECURSIVE SortDedup(_)
SortDedup(s) ==
    IF s = <<>> THEN <<>>
    ELSE LET r == SortDedup(SubSeq(s, 1, Len(s) - 1))
             x == s[Len(s)]
         IN  IF \E i \in 1..Len(r) : r[i] = x THEN r ELSE InsertSorted(x, r)

\* works.sort(): a stable sort by StrLess
RECURSIVE SortSeq(_)
SortSeq(s) ==
    IF s = <<>> THEN <<>>
    ELSE InsertSorted(s[Len(s)], SortSeq(SubSeq(s, 1, Len(s) - 1)))

----------------------------------------------------------------------------
(* println! *)

\* println!(...) writes the formatted text and a line feed
Println(text) == text \o <<LF>>

\* a header without its artist
FmtHeaderBare(artist) == WorksBy \o <<Colon>>

\* format!("works by {}:", artist)
FmtHeader(artist) == WorksBy \o artist \o <<Colon>>

\* a work line without its leading space
FmtWorkFlush(work) == work

\* format!(" {}", work)
FmtWork(work) == <<Space>> \o work

----------------------------------------------------------------------------
(* The initial states *)

NoArtist == <<>>

InitMain ==
    /\ caller = "main"
    /\ pc = "hello"
    /\ table = EmptyTable
    /\ live = FALSE
    /\ todo = {}
    /\ cur = NoArtist
    /\ idx = 0
    /\ out = <<>>
    /\ readers = 0
    /\ writer = FALSE
    /\ pre = EmptyTable
    /\ lastOp = "none"
    /\ again = FALSE

InitAny ==
    /\ caller = "any"
    /\ pc = "idle"
    /\ table \in AnyTables
    /\ live = TRUE
    /\ todo = {}
    /\ cur = NoArtist
    /\ idx = 0
    /\ out = <<>>
    /\ readers = 0
    /\ writer = FALSE
    /\ pre = table
    /\ lastOp = "none"
    /\ again = FALSE

Init == InitMain \/ InitAny

----------------------------------------------------------------------------
(* main *)

\* println!("Hello, world!")
MainHello ==
    /\ caller = "main" /\ pc = "hello"
    /\ out' = out \o Println(HelloWorld)
    /\ pc' = "new"
    /\ UNCHANGED <<caller, table, live, todo, cur, idx, readers, writer, pre, lastOp, again>>

\* let mut table = Table::new()
MainNew ==
    /\ caller = "main" /\ pc = "new"
    /\ table' = EmptyTable
    /\ live' = TRUE
    /\ pc' = "insert1"
    /\ UNCHANGED <<caller, todo, cur, idx, out, readers, writer, pre, lastOp, again>>

\* the three table.insert(...) statements, in program order
MainInsert ==
    /\ caller = "main" /\ pc \in {"insert1", "insert2", "insert3"}
    /\ live
    /\ table' = CASE pc = "insert1" -> TableInsert(table, Gesualdo, GesualdoWorks)
                  [] pc = "insert2" -> TableInsert(table, Caravaggio, CaravaggioWorks)
                  [] pc = "insert3" -> TableInsert(table, Cellini, CelliniWorks)
    /\ pc' = CASE pc = "insert1" -> "insert2"
               [] pc = "insert2" -> "insert3"
               [] pc = "insert3" -> "assert"
    /\ UNCHANGED <<caller, live, todo, cur, idx, out, readers, writer, pre, lastOp, again>>

\* assert_eq!(table["Gesualdo"][0], "many madrigals"): the index of a missing
\* key, the index 0 of an empty vector and an unequal value all panic
MainAssert ==
    /\ caller = "main" /\ pc = "assert"
    /\ live
    /\ pc' = IF /\ Gesualdo \in DOMAIN table
                /\ Len(table[Gesualdo]) >= 1
                /\ table[Gesualdo][1] = ManyMadrigals
             THEN "call_sort"
             ELSE "panicked"
    /\ UNCHANGED <<caller, table, live, todo, cur, idx, out, readers, writer, pre, lastOp, again>>

\* sort_works(&mut table) of main
MainCallSort ==
    /\ caller = "main" /\ pc = "call_sort"
    /\ live
    /\ writer' = TRUE
    /\ todo' = DOMAIN table
    /\ pre' = table
    /\ pc' = "sort_loop"
    /\ UNCHANGED <<caller, table, live, cur, idx, out, readers, lastOp, again>>

----------------------------------------------------------------------------
(* The arbitrary caller *)

\* show(&table) on the caller's table
AnyCallShow ==
    /\ caller = "any" /\ pc = "idle"
    /\ live
    /\ readers' = readers + 1
    /\ todo' = DOMAIN table
    /\ pre' = IF lastOp = "show" THEN pre ELSE table
    /\ out' = <<>>
    /\ pc' = "show_outer"
    /\ UNCHANGED <<caller, table, live, cur, idx, writer, lastOp, again>>

\* sort_works(&mut table) on the caller's table
AnyCallSort ==
    /\ caller = "any" /\ pc = "idle"
    /\ live
    /\ writer' = TRUE
    /\ todo' = DOMAIN table
    /\ pre' = table
    /\ pc' = "sort_loop"
    /\ UNCHANGED <<caller, table, live, cur, idx, out, readers, lastOp, again>>

----------------------------------------------------------------------------
(* show *)

\* for (artist, works) in table { println!("works by {}:", artist); ... :
\* the map yields its entries in an order of its own
ShowOuter ==
    /\ pc = "show_outer" /\ todo # {}
    /\ \E artist \in todo :
          /\ todo' = todo \ {artist}
          /\ cur' = artist
          /\ out' = out \o Println(FmtHeader(artist))
    /\ idx' = 1
    /\ pc' = "show_inner"
    /\ UNCHANGED <<caller, table, live, readers, writer, pre, lastOp, again>>

\* for work in works { println!(" {}", work); }
ShowInner ==
    /\ pc = "show_inner" /\ idx <= Len(table[cur])
    /\ out' = out \o Println(FmtWork(table[cur][idx]))
    /\ idx' = idx + 1
    /\ UNCHANGED <<caller, pc, table, live, todo, cur, readers, writer, pre, lastOp, again>>

\* the inner loop ends
ShowInnerEnd ==
    /\ pc = "show_inner" /\ idx > Len(table[cur])
    /\ cur' = NoArtist
    /\ idx' = 0
    /\ pc' = "show_outer"
    /\ UNCHANGED <<caller, table, live, todo, out, readers, writer, pre, lastOp, again>>

\* a show that took the table by value: the caller's variable is moved from
ShowReturnMoved ==
    /\ pc = "show_outer" /\ todo = {}
    /\ readers' = readers - 1
    /\ live' = FALSE
    /\ table' = EmptyTable
    /\ again' = (lastOp = "show")
    /\ lastOp' = "show"
    /\ pc' = "idle"
    /\ UNCHANGED <<caller, todo, cur, idx, out, writer, pre>>

\* a show whose shared borrow is still in use after it returned
ShowReturnBorrowed ==
    /\ pc = "show_outer" /\ todo = {}
    /\ again' = (lastOp = "show")
    /\ lastOp' = "show"
    /\ pc' = "idle"
    /\ UNCHANGED <<caller, table, live, todo, cur, idx, out, readers, writer, pre>>

\* the outer loop ends and show returns: the shared borrow ends
ShowReturn ==
    /\ pc = "show_outer" /\ todo = {}
    /\ readers' = readers - 1
    /\ again' = (lastOp = "show")
    /\ lastOp' = "show"
    /\ pc' = "idle"
    /\ UNCHANGED <<caller, table, live, todo, cur, idx, out, writer, pre>>

----------------------------------------------------------------------------
(* sort_works *)

\* a loop that removes the entry whose vector is empty
SortIterDropEmpty ==
    /\ pc = "sort_loop" /\ todo # {}
    /\ \E artist \in todo :
          /\ todo' = todo \ {artist}
          /\ table' = IF table[artist] = <<>>
                      THEN [a \in DOMAIN table \ {artist} |-> table[a]]
                      ELSE [table EXCEPT ![artist] = SortSeq(@)]
    /\ UNCHANGED <<caller, pc, live, cur, idx, out, readers, writer, pre, lastOp, again>>

\* for (_artist, works) in table { works.sort(); }
SortIter ==
    /\ pc = "sort_loop" /\ todo # {}
    /\ \E artist \in todo :
          /\ todo' = todo \ {artist}
          /\ table' = [table EXCEPT ![artist] = SortSeq(@)]
    /\ UNCHANGED <<caller, pc, live, cur, idx, out, readers, writer, pre, lastOp, again>>

\* the loop ends and sort_works returns: the mutable borrow ends
SortReturn ==
    /\ pc = "sort_loop" /\ todo = {}
    /\ writer' = FALSE
    /\ again' = (lastOp = "sort")
    /\ lastOp' = "sort"
    /\ pc' = IF caller = "main" THEN "done" ELSE "idle"
    /\ UNCHANGED <<caller, table, live, todo, cur, idx, out, readers, pre>>

----------------------------------------------------------------------------

Next ==
    \/ MainHello
    \/ MainNew
    \/ MainInsert
    \/ MainAssert
    \/ MainCallSort
    \/ AnyCallShow
    \/ AnyCallSort
    \/ ShowOuter
    \/ ShowInner
    \/ ShowInnerEnd
    \/ ShowReturn
    \/ SortIter
    \/ SortReturn

Spec == Init /\ [][Next]_vars

TypeOK ==
    /\ caller \in {"main", "any"}
    /\ pc \in {"hello", "new", "insert1", "insert2", "insert3", "assert", "call_sort",
               "panicked", "done", "idle", "show_outer", "show_inner", "sort_loop"}
    /\ live \in BOOLEAN
    /\ writer \in BOOLEAN
    /\ readers \in 0..1
    /\ todo \subseteq DOMAIN table
    /\ lastOp \in {"none", "show", "sort"}
    /\ again \in BOOLEAN

----------------------------------------------------------------------------
(* Vocabulary of the properties *)

Range(s) == { s[i] : i \in 1..Len(s) }

\* a <= b in the lexicographic order of byte strings
LexLE(a, b) ==
    \/ /\ Len(a) <= Len(b)
       /\ \A i \in 1..Len(a) : a[i] = b[i]
    \/ \E i \in 1..Len(a) :
          /\ i <= Len(b)
          /\ \A j \in 1..(i - 1) : a[j] = b[j]
          /\ a[i] < b[i]

IsSorted(s) == \A i \in 1..(Len(s) - 1) : LexLE(s[i], s[i + 1])

Count(x, s) == Cardinality({ i \in 1..Len(s) : s[i] = x })

IsPermutation(s, t) ==
    /\ Len(s) = Len(t)
    /\ \A x \in Range(s) \cup Range(t) : Count(x, s) = Count(x, t)

\* sort_works has returned and nothing was called since
SortReturned == lastOp = "sort" /\ pc \in {"idle", "done"}

\* show has returned and nothing was called since
ShowReturned == lastOp = "show" /\ pc = "idle"

\* the lines of a byte stream: the text before each line feed, and the text
\* after the last one when there is any
SplitLines(bytes) ==
    LET F[i \in 0..Len(bytes)] ==
            IF i = 0 THEN << <<>> >>
            ELSE LET done == F[i - 1]
                     n == Len(done)
                 IN  IF bytes[i] = 10
                     THEN Append(done, <<>>)
                     ELSE [done EXCEPT ![n] = Append(@, bytes[i])]
        all == F[Len(bytes)]
    IN  IF all[Len(all)] = <<>> THEN SubSeq(all, 1, Len(all) - 1) ELSE all

\* the orders in which the artists of set S can be listed
Orderings(S) ==
    { f \in [1..Cardinality(S) -> S] : \A i, j \in 1..Cardinality(S) : f[i] = f[j] => i = j }

\* the lines of a listing of table t that takes the artists in order ord:
\* per artist "works by <artist>:" and then " <work>" for each work in turn
ListingLines(t, ord) ==
    LET F[k \in 0..Len(ord)] ==
            IF k = 0 THEN <<>>
            ELSE F[k - 1]
                 \o << <<119, 111, 114, 107, 115, 32, 98, 121, 32>> \o ord[k] \o <<58>> >>
                 \o [i \in 1..Len(t[ord[k]]) |-> <<32>> \o t[ord[k]][i]]
    IN  F[Len(ord)]

TotalWorks(t) ==
    LET ord == CHOOSE f \in Orderings(DOMAIN t) : TRUE
        F[k \in 0..Len(ord)] == IF k = 0 THEN 0 ELSE F[k - 1] + Len(t[ord[k]])
    IN  F[Len(ord)]

\* no artist name and no title of t holds a line feed
NoLineFeed(t) ==
    \A a \in DOMAIN t :
        /\ 10 \notin Range(a)
        /\ \A i \in 1..Len(t[a]) : 10 \notin Range(t[a][i])

----------------------------------------------------------------------------
(* Properties *)

\* C1: when sort_works has returned, every artist's work list is in
\* non-decreasing lexicographic order and is a permutation of the list the
\* artist had when sort_works was called (same titles, same multiplicities).
C1_SortedPermutation ==
    SortReturned =>
        /\ \A a \in DOMAIN table : IsSorted(table[a])
        /\ \A a \in DOMAIN pre :
              a \in DOMAIN table /\ IsPermutation(table[a], pre[a])

\* sort_works has returned after reordering a list of three works that holds
\* a title twice
C1_Witness ==
    /\ SortReturned
    /\ \E a \in DOMAIN table :
          /\ a \in DOMAIN pre
          /\ Len(pre[a]) = 3
          /\ table[a] # pre[a]
          /\ Cardinality(Range(pre[a])) = 2

\* C2, as stated: after main's sort_works the works of Cellini are
\* ["a salt cellar", "Perseus with the head of Medusa"].
C2_SaltCellarFirst ==
    (caller = "main" /\ pc = "done") =>
        /\ Cellini \in DOMAIN table
        /\ table[Cellini] = <<ASaltCellar, PerseusWithTheHeadOfMedusa>>

\* C2, amended: after main's sort_works the works of Cellini are
\* ["Perseus with the head of Medusa", "a salt cellar"]: the byte of "P" (80)
\* is less than the byte of "a" (97), so the list keeps its order.
C2_PerseusFirst ==
    (caller = "main" /\ pc = "done") =>
        /\ Cellini \in DOMAIN table
        /\ table[Cellini] = <<PerseusWithTheHeadOfMedusa, ASaltCellar>>

\* main has finished and Cellini has two works
C2_Witness ==
    /\ caller = "main" /\ pc = "done"
    /\ Cellini \in DOMAIN table
    /\ Len(table[Cellini]) = 2

\* C3: after main's three inserts and before its sort_works, the keys of the
\* table are exactly Gesualdo, Caravaggio and Cellini and each maps to its two
\* literal titles in the order they are written.
C3_TableAfterInserts ==
    (caller = "main" /\ pc \in {"assert", "call_sort"}) =>
        /\ DOMAIN table = {Gesualdo, Caravaggio, Cellini}
        /\ table[Gesualdo] = <<ManyMadrigals, TenebraeResponsoria>>
        /\ table[Caravaggio] = <<TheMusicians, TheCallingOfStMatthew>>
        /\ table[Cellini] = <<PerseusWithTheHeadOfMedusa, ASaltCellar>>

\* main has done its third insert
C3_Witness ==
    /\ caller = "main" /\ pc = "assert"
    /\ Cardinality(DOMAIN table) = 3

\* C4: show leaves the table as it was: while calls of show follow one
\* another, and after they returned, the table equals the table before the
\* first of them, and the caller still holds it.
C4_ShowKeepsTable ==
    (pc \in {"show_outer", "show_inner"} \/ ShowReturned) =>
        /\ live
        /\ table = pre

\* show has returned twice in a row on a table of two artists with works
C4_Witness ==
    /\ ShowReturned /\ again
    /\ Cardinality(DOMAIN table) >= 2
    /\ \A a \in DOMAIN table : Len(table[a]) >= 1

\* C5: sort_works is idempotent: when it has returned for the second time in
\* a row, the table equals the table its first call left.
C5_SortIdempotent ==
    (SortReturned /\ again) => table = pre

\* sort_works has returned twice in a row on a table with a list of two
\* different titles
C5_Witness ==
    /\ SortReturned /\ again
    /\ \E a \in DOMAIN table : Cardinality(Range(table[a])) >= 2

\* C6: in main the table is printed before it is sorted: once main's
\* sort_works has begun, standard output holds the header line of every artist.
C6_PrintedBeforeSort ==
    (caller = "main" /\ pc \in {"sort_loop", "done"}) =>
        \A a \in DOMAIN table :
            (<<119, 111, 114, 107, 115, 32, 98, 121, 32>> \o a \o <<58>>)
                \in Range(SplitLines(out))

\* C7: shared and mutable access never overlap: while the mutable borrow of
\* sort_works is in use no reader is (neither show nor the indexing read of
\* the assertion), and no step taken while a reader is active changes the table.
C7_ReadersExcludeWriter ==
    /\ [](~(writer /\ (readers > 0 \/ pc \in {"assert", "show_outer", "show_inner"})))
    /\ [][(readers > 0 \/ pc = "assert") => table' = table]_vars

\* sort_works holds the mutable borrow after a show has returned
C7_Witness ==
    /\ writer /\ readers = 0
    /\ pc = "sort_loop"
    /\ lastOp = "show"

\* C8, as stated: for any table, the lines show wrote are, for each artist
\* once, in some order of the artists, the header line followed by one line
\* per work, and they number the artists plus the works.
C8_ListingAnyTable ==
    ShowReturned =>
        /\ \E ord \in Orderings(DOMAIN table) : SplitLines(out) = ListingLines(table, ord)
        /\ Len(SplitLines(out)) = Cardinality(DOMAIN table) + TotalWorks(table)

\* C8, amended: the same, for a table none of whose artist names and titles
\* holds a line feed.
C8_ListingNoLineFeed ==
    (ShowReturned /\ NoLineFeed(table)) =>
        /\ \E ord \in Orderings(DOMAIN table) : SplitLines(out) = ListingLines(table, ord)
        /\ Len(SplitLines(out)) = Cardinality(DOMAIN table) + TotalWorks(table)

\* show has returned on a table, free of line feeds, of two artists of whom
\* one has two different works
C8_Witness ==
    /\ ShowReturned /\ NoLineFeed(table)
    /\ Cardinality(DOMAIN table) >= 2
    /\ \A a \in DOMAIN table : Len(table[a]) >= 1
    /\ \E a \in DOMAIN table : Cardinality(Range(table[a])) >= 2

\* C9: main never panics in its assertion: where the assertion is evaluated
\* the key Gesualdo is present, its list is not empty and its first work is
\* "many madrigals".
C9_AssertionHolds ==
    /\ pc # "panicked"
    /\ (caller = "main" /\ pc = "assert") =>
          /\ Gesualdo \in DOMAIN table
          /\ Len(table[Gesualdo]) >= 1
          /\ table[Gesualdo][1] = ManyMadrigals

\* main has passed its assertion
C9_Witness ==
    /\ caller = "main" /\ pc = "call_sort"
    /\ live

\* C10: sort_works leaves the artists as they were: when it has returned the
\* key set equals the key set at the call, and an artist whose list was empty
\* still maps to the empty list.
C10_SortKeepsKeys ==
    SortReturned =>
        /\ DOMAIN table = DOMAIN pre
        /\ \A a \in DOMAIN pre :
              pre[a] = <<>> => (a \in DOMAIN table /\ table[a] = <<>>)

\* sort_works has returned on a table with an artist without works and an
\* artist with two
C10_Witness ==
    /\ SortReturned
    /\ \E a, b \in DOMAIN table : table[a] = <<>> /\ Len(table[b]) >= 2

====
